---- MODULE Spec2Model ----
(***************************************************************************)
(* Supervisor routing-and-execution core of lc-entertainment:              *)
(*   app/backend/agents/supervisor_agent.py  (SupervisorAgent, TaskResult) *)
(*   app/backend/observability.py            (ObservabilityManager)        *)
(*                                                                         *)
(* One execute_task call is in flight at a time; its body is split into    *)
(* steps at the calls it makes to its collaborators (the language model,   *)
(* the sub-agents, the observability store).  The collaborators' outcomes  *)
(* (a reply or a raised exception) are chosen nondeterministically from    *)
(* small sets.                                                             *)
(*                                                                         *)
(* Text: Python strings are TLA+ strings; the classifier's reply is a      *)
(* sequence of one-character strings so that strip() and lower() can be    *)
(* computed character by character.  The Chinese literals of the source    *)
(* are written in ASCII (the literal is quoted next to each).  Wall-clock  *)
(* timestamps (datetime.now().isoformat()) are not modelled; elapsed time  *)
(* is a value chosen from ExecTimes.                                       *)
(***************************************************************************)
EXTENDS Integers, Sequences, FiniteSets, TLC

(***************************************************************************)
(* Bounds of the model                                                     *)
(***************************************************************************)
\* number of execute_task calls explored
MaxCalls == 2

(***************************************************************************)
(* Values                                                                  *)
(***************************************************************************)
\* Python's None
None == "None"

\* AgentType = Literal["map", "music", "general"]
AgentType == {"map", "music", "general"}

\* keys of self.sub_agents
sub_agents == {"map", "music"}

\* "(Agent未返回内容)"
Placeholder == "(Agent returned no content)"

\* "任务执行失败: "
FailurePrefix == "task execution failed: "

\* "未知的Agent类型: "
UnknownTypePrefix == "unknown agent type: "

\* self.max_traces, self.max_events, the per-series cap of record_metric and
\* the history cap of _record_task
max_traces == 1000
max_events == 1000
max_metric_points == 1000
max_history == 100

\* inputs of execute_task
UserInputs == {"hello", "play jay"}
ExplicitTypes == {None, "map", "music", "general", "video", ""}

\* outcomes of the collaborators
ExcTexts == {"", "boom"}
Contents == {"hi there"}
ExecTimes == {2}

\* replies of the model to the classification prompt (response.content)
ClassifierReplies ==
    { <<"m","a","p">>,
      <<" ","M","u","s","i","c","\n">>,
      <<"G","E","N","E","R","A","L">>,
      <<"m","a","p","s">>,
      <<" ">> }

\* messages an executor can return: an object with a content attribute, or a
\* plain dict (which has no such attribute)
Msg(kind, content) == [kind |-> kind, content |-> content]
MessageLists ==
    { <<>>,
      <<Msg("obj", "found POI X")>>,
      <<Msg("dict", "found POI X")>>,
      <<Msg("obj", "searching"), Msg("obj", "found POI X")>>,
      <<Msg("obj", "found POI X"), Msg("dict", "done")>> }

(***************************************************************************)
(* Text helpers                                                            *)
(***************************************************************************)
UpperCase == <<"A","B","C","D","E","F","G","H","I","J","K","L","M",
               "N","O","P","Q","R","S","T","U","V","W","X","Y","Z">>
LowerCase == <<"a","b","c","d","e","f","g","h","i","j","k","l","m",
               "n","o","p","q","r","s","t","u","v","w","x","y","z">>
Whitespace == {" ", "\t", "\n", "\r", "\f"}

\* str.lower() on one character
LowerChar(c) ==
    IF \E i \in 1..26 : UpperCase[i] = c
    THEN LowerCase[CHOOSE i \in 1..26 : UpperCase[i] = c]
    ELSE c

\* str.lower()
lower(s) == [i \in 1..Len(s) |-> LowerChar(s[i])]

RECURSIVE lstrip(_)
lstrip(s) == IF s # <<>> /\ Head(s) \in Whitespace THEN lstrip(Tail(s)) ELSE s

RECURSIVE rstrip(_)
rstrip(s) ==
    IF s # <<>> /\ s[Len(s)] \in Whitespace THEN rstrip(SubSeq(s, 1, Len(s) - 1)) ELSE s

\* str.strip()
strip(s) == rstrip(lstrip(s))

\* the characters of a reply as one string
RECURSIVE Join(_)
Join(s) == IF s = <<>> THEN "" ELSE Head(s) \o Join(Tail(s))

\* lst[-n:] for n > 0
LastN(s, n) == IF Len(s) > n THEN SubSeq(s, Len(s) - n + 1, Len(s)) ELSE s

\* truthiness of an agent type (None and "" are falsy)
Truthy(x) == x # None /\ x # ""

\* str(last_message) of a dict message
StrOfDict(m) == "{'content': '" \o m.content \o "'}"

(***************************************************************************)
(* Outcomes of the collaborators                                           *)
(***************************************************************************)
\* llm.invoke on the classification prompt: a reply, or an exception
ClassifierOutcomes ==
    {[raised |-> FALSE, content |-> r] : r \in ClassifierReplies}
    \cup {[raised |-> TRUE, content |-> <<>>]}

\* llm.invoke on the raw user input: a reply, or an exception
ModelOutcomes ==
    {[raised |-> FALSE, text |-> c] : c \in Contents}
    \cup {[raised |-> TRUE, text |-> e] : e \in ExcTexts}

\* agent.invoke: a response holding a message list, or an exception
AgentOutcomes ==
    {[raised |-> FALSE, text |-> "", messages |-> ms] : ms \in MessageLists}
    \cup {[raised |-> TRUE, text |-> e, messages |-> <<>>] : e \in ExcTexts}

NoAgentOutcome == [raised |-> FALSE, text |-> "", messages |-> <<>>]
NoClassifierOutcome == [raised |-> FALSE, content |-> <<>>]
NoModelOutcome == [raised |-> FALSE, text |-> ""]

(***************************************************************************)
(* State                                                                   *)
(***************************************************************************)
VARIABLES
    \* SupervisorAgent and ObservabilityManager
    task_history,     \* self.task_history
    traces,           \* observability.traces
    events,           \* observability.events
    metrics,          \* observability.metrics
    obs_loaded,       \* app.backend.observability has been imported
    uuid_count,       \* number of uuid4() values drawn so far
    \* frame of the execute_task call in flight
    pc,               \* position in execute_task
    user_input,       \* parameter
    agent_type,       \* parameter, reassigned by the intent analysis
    task_id,
    trace_id,
    result_content,
    exc,              \* str(e) of the exception caught or escaping
    execution_time,
    result,           \* the TaskResult built
    \* bookkeeping about the call in flight
    explicit,         \* agent_type as the caller passed it
    calls,            \* number of execute_task calls made
    invoked,          \* how often each collaborator was invoked by this call
    classified,       \* outcome of the classification call
    answer,           \* outcome of the direct model call
    response,         \* outcome of agent.invoke
    returned,         \* the results this call has returned to its caller
    \* the caller of the read operations
    reply,            \* what the last read operation returned
    \* a caller using the observability store directly
    appended,         \* everything that caller has appended, per buffer
    \* execute_task calls running in concurrent threads
    tpc,              \* position of each thread
    tlocal,           \* locals of each thread
    \* the ObservabilityManager class
    manager,          \* its _instance, the objects created, those initialised
    \* the module global of supervisor_agent.py, line 286
    _supervisor_instance

vars == <<task_history, traces, events, metrics, obs_loaded, uuid_count,
          pc, user_input, agent_type, task_id, trace_id, result_content, exc,
          execution_time, result, explicit, calls, invoked, classified,
          answer, response, returned, reply, appended, tpc, tlocal, manager,
          _supervisor_instance>>

store == <<traces, events, metrics>>
frame == <<user_input, agent_type, task_id, trace_id, result_content, exc,
           execution_time, result>>
ghost == <<explicit, calls, invoked, classified, answer, response, returned>>
aside == <<appended, tpc, tlocal, manager, _supervisor_instance>>
sequential == <<task_history, uuid_count, pc, frame, ghost, reply, appended,
                _supervisor_instance>>

Collaborators == {"classifier", "model", "map", "music"}
NoInvocation == [c \in Collaborators |-> 0]
NoReply == [op |-> "none"]

\* the threads that run execute_task concurrently
Threads == {"T1", "T2"}
NoLocals == [task_id |-> None]
NothingAppended ==
    [total |-> 0, last |-> None, traces |-> <<>>, events |-> <<>>,
     metrics |-> [n \in {} |-> <<>>]]

NoResult == [success |-> FALSE, agent_type |-> None, content |-> None,
             metadata |-> <<>>, error |-> None]

\* str(uuid.uuid4())[:8]; every draw is a fresh value
uuid4(n) == "u" \o ToString(n)

(***************************************************************************)
(* TaskResult                                                              *)
(***************************************************************************)
TaskResult(success, atype, content, metadata, error) ==
    [success |-> success, agent_type |-> atype, content |-> content,
     metadata |-> metadata, error |-> error]

\* TaskResult.to_dict
to_dict(r) ==
    [success |-> r.success, agent_type |-> r.agent_type, content |-> r.content,
     metadata |-> r.metadata, error |-> r.error]

\* the metadata without the trace id
Metadata_no_trace_id(tid, t, u, trid) ==
    [task_id |-> tid, execution_time |-> t, user_input |-> u]

\* the metadata of lines 183-188 and 209-214
Metadata(tid, t, u, trid) ==
    [task_id |-> tid, execution_time |-> t, user_input |-> u, trace_id |-> trid]

(***************************************************************************)
(* ObservabilityManager                                                    *)
(***************************************************************************)
\* the class before any construction: _instance = None (line 20)
NotConstructed == [_instance |-> None, made |-> 0, _initialized |-> {}]
ObjectId(n) == "manager" \o ToString(n)
EmptyStore == <<<<>>, <<>>, [n \in {} |-> <<>>]>>

\* __new__ creating an object at every construction
__new___unchecked(m) ==
    [m EXCEPT !.made = @ + 1, !._instance = ObjectId(m.made + 1)]

\* __new__, lines 23-28: the class afterwards; the object returned is its
\* _instance.  The test of line 26 and the creation of line 27 hold _lock.
__new__(m) ==
    IF m._instance = None
    THEN [m EXCEPT !.made = @ + 1, !._instance = ObjectId(m.made + 1)]
    ELSE m

\* __init__ without the guard of lines 31-32
__init___unguarded(m, self, st) ==
    [manager |-> [m EXCEPT !._initialized = @ \cup {self}], store |-> EmptyStore]

\* __init__, lines 30-50, on the object self with the buffers st: the class
\* and the buffers afterwards
__init__(m, self, st) ==
    IF self \in m._initialized
    THEN [manager |-> m, store |-> st]
    ELSE [manager |-> [m EXCEPT !._initialized = @ \cup {self}],
          store |-> EmptyStore]

\* line 340: observability = ObservabilityManager(), run by the import
Constructed(m) == __init__(__new__(m), __new__(m)._instance, EmptyStore).manager

\* the span start_trace appends, and the buffer after it
start_trace(tr, trid, span_name, metadata) ==
    LastN(Append(tr, [trace_id |-> trid, span_name |-> span_name \o ".start",
                      metadata |-> metadata]), max_traces)

\* end_trace dropping the newest span once the buffer is full
end_trace_keep_oldest(tr, trid, metadata) ==
    LET all == Append(tr, [trace_id |-> trid, span_name |-> "end",
                           metadata |-> metadata])
    IN  IF Len(all) > max_traces THEN SubSeq(all, 1, max_traces) ELSE all

end_trace(tr, trid, metadata) ==
    LastN(Append(tr, [trace_id |-> trid, span_name |-> "end",
                      metadata |-> metadata]), max_traces)

\* trace() that drops the newest span once the buffer is full
trace_keep_oldest(tr, trid, span_name, metadata) ==
    LET all == Append(tr, [trace_id |-> trid, span_name |-> span_name,
                           metadata |-> metadata])
    IN  IF Len(all) > max_traces THEN SubSeq(all, 1, max_traces) ELSE all

trace(tr, trid, span_name, metadata) ==
    LastN(Append(tr, [trace_id |-> trid, span_name |-> span_name,
                      metadata |-> metadata]), max_traces)

record_metric(m, metric_name, value) ==
    LET cur == IF metric_name \in DOMAIN m THEN m[metric_name] ELSE <<>>
        new == LastN(Append(cur, value), max_metric_points)
    IN  [n \in DOMAIN m \cup {metric_name} |-> IF n = metric_name THEN new ELSE m[n]]

record_event(ev, event_type, data) ==
    LastN(Append(ev, [event_type |-> event_type, data |-> data]), max_events)

(***************************************************************************)
(* SupervisorAgent                                                         *)
(***************************************************************************)
\* analyze_intent without the validation of lines 101-103
analyze_intent_unvalidated(outcome) ==
    IF outcome.raised
    THEN "general"
    ELSE Join(lower(strip(outcome.content)))

\* analyze_intent, given the outcome of its llm.invoke
analyze_intent(outcome) ==
    IF outcome.raised
    THEN "general"
    ELSE LET t == Join(lower(strip(outcome.content)))
         IN  IF t \notin {"map", "music", "general"} THEN "general" ELSE t

\* _record_task called on the success path only
_record_task_success_only(h, tid, u, atype, r, t) ==
    IF r.success
    THEN LastN(Append(h, [task_id |-> tid, user_input |-> u, agent_type |-> atype,
                          success |-> r.success, execution_time |-> t,
                          result |-> to_dict(r)]), max_history)
    ELSE h

\* the truncation keeping the oldest records: self.task_history[:100]
_record_task_keep_oldest(h, tid, u, atype, r, t) ==
    SubSeq(Append(h, [task_id |-> tid, user_input |-> u, agent_type |-> atype,
                      success |-> r.success, execution_time |-> t,
                      result |-> to_dict(r)]),
           1, IF Len(h) + 1 > max_history THEN max_history ELSE Len(h) + 1)

\* the history after the append and the truncation
_record_task(h, tid, u, atype, r, t) ==
    LastN(Append(h, [task_id |-> tid, user_input |-> u, agent_type |-> atype,
                     success |-> r.success, execution_time |-> t,
                     result |-> to_dict(r)]), max_history)

\* messages[0] instead of messages[-1]
LastMessageContent_first(messages) ==
    IF messages # <<>>
    THEN LET first_message == messages[1]
         IN  IF first_message.kind = "obj" THEN first_message.content
             ELSE StrOfDict(first_message)
    ELSE Placeholder

\* an empty message list treated as a failure text instead of the placeholder
LastMessageContent_no_placeholder(messages) ==
    IF messages # <<>>
    THEN LET last_message == messages[Len(messages)]
         IN  IF last_message.kind = "obj" THEN last_message.content
             ELSE StrOfDict(last_message)
    ELSE ""

\* the content taken from an executor's response
LastMessageContent(messages) ==
    IF messages # <<>>
    THEN LET last_message == messages[Len(messages)]
         IN  IF last_message.kind = "obj" THEN last_message.content
             ELSE StrOfDict(last_message)
    ELSE Placeholder

\* lst[start:], with Python's treatment of a negative or oversized start
SliceFrom(s, start) ==
    LET n == Len(s)
        b == IF start < 0
             THEN (IF n + start < 0 THEN 0 ELSE n + start)
             ELSE (IF start > n THEN n ELSE start)
    IN  SubSeq(s, b + 1, n)

\* get_task_history: self.task_history[-limit:]
get_task_history(h, limit) == SliceFrom(h, 0 - limit)

\* a / b of two numbers, kept as the exact quotient
\* (the literal 0 of line 258 is the fraction 0/1)
Quotient(a, b) == [num |-> a, den |-> b]

\* every task counted as a success
success_count_every_task(h) == Len(h)

\* sum(1 for t in self.task_history if t["success"])
RECURSIVE success_count(_)
success_count(h) ==
    IF h = <<>> THEN 0
    ELSE (IF Head(h).success THEN 1 ELSE 0) + success_count(Tail(h))

\* sum(t["execution_time"] for t in self.task_history)
RECURSIVE total_time(_)
total_time(h) ==
    IF h = <<>> THEN 0 ELSE Head(h).execution_time + total_time(Tail(h))

\* every agent type counted once
agent_usage_distinct(h) ==
    [a \in {h[i].agent_type : i \in 1..Len(h)} |-> 1]

\* the loop of lines 267-272
RECURSIVE agent_usage(_)
agent_usage(h) ==
    IF h = <<>> THEN [a \in {} |-> 0]
    ELSE LET before == agent_usage(SubSeq(h, 1, Len(h) - 1))
             atype == h[Len(h)].agent_type
         IN  [a \in DOMAIN before \cup {atype} |->
                 IF a = atype
                 THEN (IF a \in DOMAIN before THEN before[a] ELSE 0) + 1
                 ELSE before[a]]

\* get_statistics without the empty-history branch of lines 255-261
get_statistics_unguarded(h) ==
    LET total == Len(h)
    IN  [total_tasks |-> total,
         success_rate |-> Quotient(success_count(h), total),
         avg_execution_time |-> Quotient(total_time(h), total),
         agent_usage |-> agent_usage(h)]

\* get_statistics
get_statistics(h) ==
    IF h = <<>>
    THEN [total_tasks |-> 0, success_rate |-> Quotient(0, 1),
          avg_execution_time |-> Quotient(0, 1),
          agent_usage |-> [a \in {} |-> 0]]
    ELSE LET total == Len(h)
         IN  [total_tasks |-> total,
              success_rate |-> Quotient(success_count(h), total),
              avg_execution_time |-> Quotient(total_time(h), total),
              agent_usage |-> agent_usage(h)]

Init ==
    /\ task_history = <<>>
    /\ traces = <<>>
    /\ events = <<>>
    /\ metrics = [n \in {} |-> <<>>]
    /\ obs_loaded \in BOOLEAN
    /\ uuid_count = 0
    /\ pc = "idle"
    /\ user_input = None
    /\ agent_type = None
    /\ task_id = None
    /\ trace_id = None
    /\ result_content = None
    /\ exc = None
    /\ execution_time = 0
    /\ result = NoResult
    /\ explicit = None
    /\ calls = 0
    /\ invoked = NoInvocation
    /\ classified = NoClassifierOutcome
    /\ answer = NoModelOutcome
    /\ response = NoAgentOutcome
    /\ returned = <<>>
    /\ reply = NoReply
    /\ appended = NothingAppended
    /\ tpc = [t \in Threads |-> "idle"]
    /\ tlocal = [t \in Threads |-> NoLocals]
    /\ manager = IF obs_loaded THEN Constructed(NotConstructed) ELSE NotConstructed
    /\ _supervisor_instance = None

\* execute_task is entered: lines 127-135
Enter(u, a) ==
    /\ pc \in {"idle", "returned", "escaped"}
    /\ calls' = calls + 1
    /\ user_input' = u
    /\ agent_type' = a
    /\ explicit' = a
    /\ task_id' = uuid4(uuid_count + 1)
    /\ uuid_count' = uuid_count + 1
    /\ trace_id' = None
    /\ result_content' = None
    /\ exc' = None
    /\ execution_time' = 0
    /\ result' = NoResult
    /\ invoked' = NoInvocation
    /\ classified' = NoClassifierOutcome
    /\ answer' = NoModelOutcome
    /\ response' = NoAgentOutcome
    /\ returned' = <<>>
    /\ reply' = NoReply
    /\ pc' = "start"
    /\ UNCHANGED <<task_history, store, obs_loaded, aside>>

\* a caller invokes execute_task
Call(u, a) ==
    /\ calls < MaxCalls
    /\ Enter(u, a)

\* lines 138-139: the observability module is imported on first use (its
\* module body constructs the manager, which creates the log directory and
\* may fail), then the start span is appended.  Nothing guards these lines.
StartTrace(import_ok) ==
    /\ pc = "start"
    /\ IF obs_loaded \/ import_ok
       THEN /\ obs_loaded' = TRUE
            /\ trace_id' = uuid4(uuid_count + 1)
            /\ uuid_count' = uuid_count + 1
            /\ traces' = start_trace(traces, uuid4(uuid_count + 1),
                                     "execute_task." \o task_id,
                                     [user_input |-> user_input])
            /\ pc' = "try"
            /\ manager' = IF obs_loaded THEN manager ELSE Constructed(manager)
            /\ UNCHANGED exc
       ELSE /\ exc' = "cannot create logs"
            /\ pc' = "escaped"
            /\ UNCHANGED <<obs_loaded, trace_id, uuid_count, traces, manager>>
    /\ UNCHANGED <<reply, appended, tpc, tlocal, _supervisor_instance, task_history, events, metrics, user_input, agent_type, task_id,
                   result_content, execution_time, result, ghost>>

\* the intent analysed whenever the type is not a sub-agent's
NeedsAnalysis_unless_sub_agent(a) == a \notin sub_agents

\* line 143: the intent is analysed only when the caller named no agent type
NeedsAnalysis(a) == a = None

\* lines 143-145: intent_analysis event, then analyze_intent
Classify(outcome) ==
    /\ pc = "try"
    /\ NeedsAnalysis(agent_type)
    /\ events' = record_event(events, "intent_analysis", [task_id |-> task_id])
    /\ agent_type' = analyze_intent(outcome)
    /\ classified' = outcome
    /\ invoked' = [invoked EXCEPT !["classifier"] = @ + 1]
    /\ pc' = "select"
    /\ UNCHANGED <<reply, aside, task_history, traces, metrics, obs_loaded, uuid_count, user_input,
                   task_id, trace_id, result_content, exc, execution_time, result,
                   explicit, calls, answer, response, returned>>

\* the selection event carrying the type the caller passed
RecordSelection_requested_type ==
    /\ \/ pc = "select"
       \/ pc = "try" /\ ~NeedsAnalysis(agent_type)
    /\ events' = record_event(events, "agent_selection",
                              [task_id |-> task_id, agent_type |-> explicit])
    /\ pc' = "dispatch"
    /\ UNCHANGED <<reply, aside, task_history, traces, metrics, obs_loaded, uuid_count, frame, ghost>>

\* lines 147-148: agent_selection event
RecordSelection ==
    /\ \/ pc = "select"
       \/ pc = "try" /\ ~NeedsAnalysis(agent_type)
    /\ events' = record_event(events, "agent_selection",
                              [task_id |-> task_id, agent_type |-> agent_type])
    /\ pc' = "dispatch"
    /\ UNCHANGED <<reply, aside, task_history, traces, metrics, obs_loaded, uuid_count, frame, ghost>>

\* every type without a sub-agent answered by the model
Branch_general_fallback(a) ==
    IF a \in sub_agents THEN "sub_agent" ELSE "general"

\* the branch of lines 151-174 taken for an agent type
Branch(a) ==
    IF a = "general" THEN "general"
    ELSE IF a \in sub_agents THEN "sub_agent"
    ELSE "unknown"

\* the model call repeated once when it raises
DispatchGeneral_retry_once(outcome) ==
    /\ pc = "dispatch"
    /\ Branch(agent_type) = "general"
    /\ invoked' = [invoked EXCEPT !["model"] = @ + 1]
    /\ answer' = outcome
    /\ IF outcome.raised
       THEN /\ exc' = outcome.text
            /\ pc' = IF invoked["model"] = 0 THEN "dispatch" ELSE "except"
            /\ UNCHANGED result_content
       ELSE /\ result_content' = outcome.text
            /\ pc' = "build"
            /\ UNCHANGED exc
    /\ UNCHANGED <<reply, aside, task_history, store, obs_loaded, uuid_count, user_input, agent_type,
                   task_id, trace_id, execution_time, result, explicit, calls,
                   classified, response, returned>>

\* lines 151-154: general conversation, answered by the model directly
DispatchGeneral(outcome) ==
    /\ pc = "dispatch"
    /\ Branch(agent_type) = "general"
    /\ invoked' = [invoked EXCEPT !["model"] = @ + 1]
    /\ answer' = outcome
    /\ IF outcome.raised
       THEN /\ exc' = outcome.text
            /\ pc' = "except"
            /\ UNCHANGED result_content
       ELSE /\ result_content' = outcome.text
            /\ pc' = "build"
            /\ UNCHANGED exc
    /\ UNCHANGED <<reply, aside, task_history, store, obs_loaded, uuid_count, user_input, agent_type,
                   task_id, trace_id, execution_time, result, explicit, calls,
                   classified, response, returned>>

\* the map executor serving every type
SelectedAgent_always_map(a) == "map"

\* line 158: the executor serving an agent type, agent = self.sub_agents[agent_type]
SelectedAgent(a) == a

\* lines 156-172: agent_invocation event, the sub-agent is invoked and the
\* content of its last message is extracted
DispatchSubAgent(outcome) ==
    /\ pc = "dispatch"
    /\ Branch(agent_type) = "sub_agent"
    /\ events' = record_event(events, "agent_invocation",
                              [task_id |-> task_id, agent_type |-> agent_type])
    /\ invoked' = [invoked EXCEPT ![SelectedAgent(agent_type)] = @ + 1]
    /\ response' = outcome
    /\ IF outcome.raised
       THEN /\ exc' = outcome.text
            /\ pc' = "except"
            /\ UNCHANGED result_content
       ELSE /\ result_content' = LastMessageContent(outcome.messages)
            /\ pc' = "build"
            /\ UNCHANGED exc
    /\ UNCHANGED <<reply, aside, task_history, traces, metrics, obs_loaded, uuid_count, user_input,
                   agent_type, task_id, trace_id, execution_time, result, explicit,
                   calls, classified, answer, returned>>

\* lines 173-174: raise ValueError(f"未知的Agent类型: {agent_type}")
DispatchUnknown ==
    /\ pc = "dispatch"
    /\ Branch(agent_type) = "unknown"
    /\ exc' = UnknownTypePrefix \o agent_type
    /\ pc' = "except"
    /\ UNCHANGED <<reply, aside, task_history, store, obs_loaded, uuid_count, user_input, agent_type,
                   task_id, trace_id, result_content, execution_time, result, ghost>>

\* lines 179-189: the result of a successful task
SuccessResult(atype, content, metadata) ==
    TaskResult(TRUE, atype, content, metadata, None)

\* error=str(e) or None
FailureResult_error_or_none(atype, e, metadata) ==
    TaskResult(FALSE, IF Truthy(atype) THEN atype ELSE "unknown",
               FailurePrefix \o e, metadata, IF e = "" THEN None ELSE e)

\* content=str(e), without the prefix
FailureResult_no_prefix(atype, e, metadata) ==
    TaskResult(FALSE, IF Truthy(atype) THEN atype ELSE "unknown",
               e, metadata, e)

\* lines 204-215: the result of a failed task
FailureResult(atype, e, metadata) ==
    TaskResult(FALSE, IF Truthy(atype) THEN atype ELSE "unknown",
               FailurePrefix \o e, metadata, e)

\* lines 177-192: elapsed time, the result, the history record
BuildSuccess(t) ==
    /\ pc = "build"
    /\ execution_time' = t
    /\ result' = SuccessResult(agent_type, result_content,
                               Metadata(task_id, t, user_input, trace_id))
    /\ task_history' = _record_task(task_history, task_id, user_input, agent_type,
                                   result', t)
    /\ pc' = "finish"
    /\ UNCHANGED <<reply, aside, store, obs_loaded, uuid_count, user_input, agent_type, task_id,
                   trace_id, result_content, exc, ghost>>

\* the success path recording the execution time only
FinishSuccess_one_metric ==
    /\ pc = "finish"
    /\ traces' = end_trace(traces, trace_id,
                           [success |-> TRUE, execution_time |-> execution_time])
    /\ metrics' = record_metric(metrics, "agent." \o agent_type \o ".execution_time",
                                execution_time)
    /\ returned' = Append(returned, result)
    /\ pc' = "returned"
    /\ UNCHANGED <<reply, aside, task_history, events, obs_loaded, uuid_count, frame, explicit,
                   calls, invoked, classified, answer, response>>

\* lines 193-198: end span, the two metrics, return result
FinishSuccess ==
    /\ pc = "finish"
    /\ traces' = end_trace(traces, trace_id,
                           [success |-> TRUE, execution_time |-> execution_time])
    /\ metrics' = record_metric(
                      record_metric(metrics, "agent." \o agent_type \o ".execution_time",
                                    execution_time),
                      "agent." \o agent_type \o ".success", 1)
    /\ returned' = Append(returned, result)
    /\ pc' = "returned"
    /\ UNCHANGED <<reply, aside, task_history, events, obs_loaded, uuid_count, frame, explicit,
                   calls, invoked, classified, answer, response>>

\* lines 200-217: the handler builds the failed result and records it
HandleException(t) ==
    /\ pc = "except"
    /\ execution_time' = t
    /\ result' = FailureResult(agent_type, exc,
                               Metadata(task_id, t, user_input, trace_id))
    /\ task_history' = _record_task(task_history, task_id, user_input, agent_type,
                                   result', t)
    /\ pc' = "finish_failed"
    /\ UNCHANGED <<reply, aside, store, obs_loaded, uuid_count, user_input, agent_type, task_id,
                   trace_id, result_content, exc, ghost>>

\* the failure path returning without ending the trace
FinishFailure_no_end_trace ==
    /\ pc = "finish_failed"
    /\ metrics' = record_metric(metrics,
                      "agent." \o (IF Truthy(agent_type) THEN agent_type ELSE "unknown")
                               \o ".failure", 1)
    /\ returned' = Append(returned, result)
    /\ pc' = "returned"
    /\ UNCHANGED <<reply, aside, task_history, traces, events, obs_loaded, uuid_count, frame,
                   explicit, calls, invoked, classified, answer, response>>

\* lines 218-220: end span, the failure metric, return result
FinishFailure ==
    /\ pc = "finish_failed"
    /\ traces' = end_trace(traces, trace_id, [success |-> FALSE, error |-> exc])
    /\ metrics' = record_metric(metrics,
                      "agent." \o (IF Truthy(agent_type) THEN agent_type ELSE "unknown")
                               \o ".failure", 1)
    /\ returned' = Append(returned, result)
    /\ pc' = "returned"
    /\ UNCHANGED <<reply, aside, task_history, events, obs_loaded, uuid_count, frame, explicit,
                   calls, invoked, classified, answer, response>>

\* limits passed to get_task_history (10 is the default)
Limits == {0, 1, 2, 10}

\* no execute_task call is in flight
Quiet == pc \in {"idle", "returned", "escaped"}

\* a caller reads the history: lines 249-251
GetTaskHistory(limit) ==
    /\ Quiet
    /\ reply' = [op |-> "get_task_history", limit |-> limit,
                 value |-> get_task_history(task_history, limit)]
    /\ UNCHANGED <<task_history, store, obs_loaded, uuid_count, pc, frame, ghost, aside>>

\* a caller reads the statistics: lines 253-282
GetStatistics ==
    /\ Quiet
    /\ reply' = [op |-> "get_statistics", value |-> get_statistics(task_history)]
    /\ UNCHANGED <<task_history, store, obs_loaded, uuid_count, pc, frame, ghost, aside>>

Next ==
    \/ \E u \in UserInputs, a \in ExplicitTypes : Call(u, a)
    \/ \E ok \in BOOLEAN : StartTrace(ok)
    \/ \E o \in ClassifierOutcomes : Classify(o)
    \/ RecordSelection
    \/ \E o \in ModelOutcomes : DispatchGeneral(o)
    \/ \E o \in AgentOutcomes : DispatchSubAgent(o)
    \/ DispatchUnknown
    \/ \E t \in ExecTimes : BuildSuccess(t)
    \/ FinishSuccess
    \/ \E t \in ExecTimes : HandleException(t)
    \/ FinishFailure

Spec == Init /\ [][Next]_vars

(***************************************************************************)
(* The read operations, called between tasks.  The tasks are drawn from a  *)
(* narrower workload so that longer histories can be explored.             *)
(***************************************************************************)
\* number of execute_task calls explored together with the read operations
MaxReadCalls == 3

ReadTypes == {None, "music", "video", ""}
ReadClassifierOutcomes ==
    {[raised |-> FALSE, content |-> <<"m","a","p">>],
     [raised |-> TRUE, content |-> <<>>]}
ReadModelOutcomes ==
    {[raised |-> FALSE, text |-> "hi there"], [raised |-> TRUE, text |-> "boom"]}
ReadAgentOutcomes ==
    {[raised |-> FALSE, text |-> "", messages |-> <<Msg("obj", "found POI X")>>],
     [raised |-> TRUE, text |-> "boom", messages |-> <<>>]}

\* a caller invokes execute_task
ReadCall(a) ==
    /\ calls < MaxReadCalls
    /\ Enter("hello", a)

NextReads ==
    \/ \E a \in ReadTypes : ReadCall(a)
    \/ StartTrace(TRUE)
    \/ \E o \in ReadClassifierOutcomes : Classify(o)
    \/ RecordSelection
    \/ \E o \in ReadModelOutcomes : DispatchGeneral(o)
    \/ \E o \in ReadAgentOutcomes : DispatchSubAgent(o)
    \/ DispatchUnknown
    \/ \E t \in {1, 2} : BuildSuccess(t)
    \/ \E t \in {1, 2} : HandleException(t)
    \/ FinishSuccess
    \/ FinishFailure
    \/ \E limit \in Limits : GetTaskHistory(limit)
    \/ GetStatistics

SpecReads == Init /\ [][NextReads]_vars

(***************************************************************************)
(* Progress of a call: execute_task is straight-line code, so once entered *)
(* its next step is taken as soon as the collaborator it waits for has     *)
(* returned or raised.  Callers are under no obligation to call.           *)
(***************************************************************************)
\* number of execute_task calls of the progress check
MaxLiveCalls == 2

LiveCall(a) ==
    /\ calls < MaxLiveCalls
    /\ Enter("hello", a)

\* the steps of a call that has been entered
Run ==
    \/ \E ok \in BOOLEAN : StartTrace(ok)
    \/ \E o \in ReadClassifierOutcomes : Classify(o)
    \/ RecordSelection
    \/ \E o \in ReadModelOutcomes : DispatchGeneral(o)
    \/ \E o \in ReadAgentOutcomes : DispatchSubAgent(o)
    \/ DispatchUnknown
    \/ BuildSuccess(2)
    \/ FinishSuccess
    \/ HandleException(2)
    \/ FinishFailure

NextLive ==
    \/ \E a \in ExplicitTypes : LiveCall(a)
    \/ Run

SpecLive == Init /\ [][NextLive]_vars /\ WF_vars(Run)

(***************************************************************************)
(* A long run of tasks, past the history cap: an arbitrary first task      *)
(* followed by general tasks that fail and succeed in turn.                *)
(***************************************************************************)
\* number of execute_task calls of the long run
MaxHistoryCalls == 102

\* the outcome of the direct model call of the n-th task of the long run
LoadModelOutcome(n) ==
    IF n % 2 = 0 THEN [raised |-> FALSE, text |-> "hi there"]
    ELSE [raised |-> TRUE, text |-> "boom"]

\* a caller invokes execute_task
HistoryCall(a) ==
    /\ calls < MaxHistoryCalls
    /\ calls > 0 => a = "general"
    /\ Enter("hello", a)

NextHistory ==
    \/ \E a \in ReadTypes \cup {"general"} : HistoryCall(a)
    \/ StartTrace(TRUE)
    \/ \E o \in ReadClassifierOutcomes : Classify(o)
    \/ RecordSelection
    \/ DispatchGeneral(LoadModelOutcome(calls))
    \/ \E o \in ReadAgentOutcomes : DispatchSubAgent(o)
    \/ DispatchUnknown
    \/ BuildSuccess(2)
    \/ HandleException(2)
    \/ FinishSuccess
    \/ FinishFailure

SpecHistory == Init /\ [][NextHistory]_vars

\* the long run with a caller reading between the tasks
NextHistoryReads ==
    \/ NextHistory
    \/ \E limit \in Limits : GetTaskHistory(limit)
    \/ GetStatistics

SpecHistoryReads == Init /\ [][NextHistoryReads]_vars

(***************************************************************************)
(* A caller that uses the observability store directly, past the caps of   *)
(* its buffers: two calls of any operation, then a burst that repeats the  *)
(* second one, then one last call of any operation.                        *)
(***************************************************************************)
\* number of store calls of that caller
MaxStoreOps == 1002
MetricNames == {"latency", "errors"}

MayCall(op) ==
    /\ pc = "idle"
    /\ appended.total < MaxStoreOps
    /\ \/ appended.total < 2
       \/ appended.total = MaxStoreOps - 1
       \/ appended.last = op

Called(op) == [appended EXCEPT !.total = @ + 1, !.last = op]
Serial == [n |-> appended.total + 1]

\* observability.start_trace(span_name, metadata), lines 52-79
CallStartTrace ==
    /\ MayCall("start_trace")
    /\ uuid_count' = uuid_count + 1
    /\ traces' = start_trace(traces, uuid4(uuid_count + 1), "step", Serial)
    /\ appended' = [Called("start_trace") EXCEPT !.traces =
           Append(@, [trace_id |-> uuid4(uuid_count + 1),
                      span_name |-> "step.start", metadata |-> Serial])]
    /\ UNCHANGED <<manager, _supervisor_instance>>
    /\ UNCHANGED <<task_history, events, metrics, obs_loaded, pc, frame, ghost,
                   reply, tpc, tlocal>>

\* observability.trace(trace_id, span_name, metadata), lines 102-122
CallTrace ==
    /\ MayCall("trace")
    /\ traces' = trace(traces, uuid4(uuid_count), "step", Serial)
    /\ appended' = [Called("trace") EXCEPT !.traces =
           Append(@, [trace_id |-> uuid4(uuid_count), span_name |-> "step",
                      metadata |-> Serial])]
    /\ UNCHANGED <<manager, _supervisor_instance>>
    /\ UNCHANGED <<task_history, events, metrics, obs_loaded, uuid_count, pc,
                   frame, ghost, reply, tpc, tlocal>>

\* observability.end_trace(trace_id, metadata), lines 81-100
CallEndTrace ==
    /\ MayCall("end_trace")
    /\ traces' = end_trace(traces, uuid4(uuid_count), Serial)
    /\ appended' = [Called("end_trace") EXCEPT !.traces =
           Append(@, [trace_id |-> uuid4(uuid_count), span_name |-> "end",
                      metadata |-> Serial])]
    /\ UNCHANGED <<manager, _supervisor_instance>>
    /\ UNCHANGED <<task_history, events, metrics, obs_loaded, uuid_count, pc,
                   frame, ghost, reply, tpc, tlocal>>

\* observability.record_metric(metric_name, value), lines 124-139
CallRecordMetric(metric_name) ==
    /\ MayCall(metric_name)
    /\ metrics' = record_metric(metrics, metric_name, appended.total + 1)
    /\ appended' = [Called(metric_name) EXCEPT !.metrics =
           [n \in DOMAIN @ \cup {metric_name} |->
               IF n = metric_name
               THEN Append(IF n \in DOMAIN @ THEN @[n] ELSE <<>>,
                           appended.total + 1)
               ELSE @[n]]]
    /\ UNCHANGED <<manager, _supervisor_instance>>
    /\ UNCHANGED <<task_history, traces, events, obs_loaded, uuid_count, pc,
                   frame, ghost, reply, tpc, tlocal>>

\* observability.record_event(event_type, data), lines 141-161
CallRecordEvent ==
    /\ MayCall("record_event")
    /\ events' = record_event(events, "custom", Serial)
    /\ appended' = [Called("record_event") EXCEPT !.events =
           Append(@, [event_type |-> "custom", data |-> Serial])]
    /\ UNCHANGED <<manager, _supervisor_instance>>
    /\ UNCHANGED <<task_history, traces, metrics, obs_loaded, uuid_count, pc,
                   frame, ghost, reply, tpc, tlocal>>

NextStore ==
    \/ CallStartTrace
    \/ CallTrace
    \/ CallEndTrace
    \/ \E metric_name \in MetricNames : CallRecordMetric(metric_name)
    \/ CallRecordEvent

SpecStore == Init /\ [][NextStore]_vars

(***************************************************************************)
(* Two execute_task calls running in concurrent threads on one supervisor, *)
(* once a sequential run of general tasks has filled the history.  Neither *)
(* _record_task nor the store takes a lock (ObservabilityManager._lock     *)
(* guards the construction of the singleton only), so a thread can be      *)
(* pre-empted between any two of the steps below.  Each thread runs        *)
(* execute_task("hello", agent_type="map"), the map agent answers.         *)
(***************************************************************************)
ThreadAgentOutcome ==
    [raised |-> FALSE, text |-> "", messages |-> <<Msg("obj", "found POI X")>>]
ThreadMetrics == <<"agent.map.execution_time", "agent.map.success">>
ThreadMetricValues == <<2, 1>>

\* the sequential run that fills the history
LoadCall ==
    /\ Len(task_history) < max_history
    /\ Enter("hello", "general")

\* lines 127-189 of a thread's call: ids, start span, the selection and
\* invocation events, the sub-agent's answer, the result.  The buffers these
\* lines append to are far below their caps.
ThreadEnter(t) ==
    /\ tpc[t] = "idle"
    /\ pc = "returned"
    /\ Len(task_history) >= max_history
    /\ uuid_count' = uuid_count + 2
    /\ traces' = start_trace(traces, uuid4(uuid_count + 2),
                             "execute_task." \o uuid4(uuid_count + 1),
                             [user_input |-> "hello"])
    /\ events' = record_event(
                     record_event(events, "agent_selection",
                                  [task_id |-> uuid4(uuid_count + 1),
                                   agent_type |-> "map"]),
                     "agent_invocation",
                     [task_id |-> uuid4(uuid_count + 1), agent_type |-> "map"])
    /\ LET r == SuccessResult("map",
                              LastMessageContent(ThreadAgentOutcome.messages),
                              Metadata(uuid4(uuid_count + 1), 2, "hello",
                                       uuid4(uuid_count + 2)))
       IN  tlocal' = [tlocal EXCEPT ![t] =
               [task_id |-> uuid4(uuid_count + 1),
                trace_id |-> uuid4(uuid_count + 2),
                result |-> r,
                task_record |-> [task_id |-> uuid4(uuid_count + 1),
                                 user_input |-> "hello", agent_type |-> "map",
                                 success |-> TRUE, execution_time |-> 2,
                                 result |-> to_dict(r)],
                sliced |-> <<>>,
                metric |-> 1]]
    /\ tpc' = [tpc EXCEPT ![t] = "append_record"]
    /\ UNCHANGED <<manager, _supervisor_instance>>
    /\ UNCHANGED <<task_history, metrics, obs_loaded, pc, frame, ghost, reply,
                   appended>>

\* line 243: self.task_history.append(task_record)
ThreadAppendRecord(t) ==
    /\ tpc[t] = "append_record"
    /\ task_history' = Append(task_history, tlocal[t].task_record)
    /\ tpc' = [tpc EXCEPT ![t] = "check_history"]
    /\ UNCHANGED <<manager, _supervisor_instance>>
    /\ UNCHANGED <<store, obs_loaded, uuid_count, pc, frame, ghost, reply,
                   appended, tlocal>>

\* line 246: if len(self.task_history) > 100
ThreadCheckHistory(t) ==
    /\ tpc[t] = "check_history"
    /\ tpc' = [tpc EXCEPT ![t] = IF Len(task_history) > max_history
                                 THEN "slice_history" ELSE "end_trace"]
    /\ UNCHANGED <<manager, _supervisor_instance>>
    /\ UNCHANGED <<task_history, store, obs_loaded, uuid_count, pc, frame, ghost,
                   reply, appended, tlocal>>

\* line 247, right-hand side: self.task_history[-100:]
ThreadSliceHistory(t) ==
    /\ tpc[t] = "slice_history"
    /\ tlocal' = [tlocal EXCEPT ![t].sliced = SliceFrom(task_history, 0 - max_history)]
    /\ tpc' = [tpc EXCEPT ![t] = "assign_history"]
    /\ UNCHANGED <<manager, _supervisor_instance>>
    /\ UNCHANGED <<task_history, store, obs_loaded, uuid_count, pc, frame, ghost,
                   reply, appended>>

\* line 247, the assignment: self.task_history = ...
ThreadAssignHistory(t) ==
    /\ tpc[t] = "assign_history"
    /\ task_history' = tlocal[t].sliced
    /\ tpc' = [tpc EXCEPT ![t] = "end_trace"]
    /\ UNCHANGED <<manager, _supervisor_instance>>
    /\ UNCHANGED <<store, obs_loaded, uuid_count, pc, frame, ghost, reply,
                   appended, tlocal>>

\* line 193: the end span (the span buffer is far below its cap)
ThreadEndTrace(t) ==
    /\ tpc[t] = "end_trace"
    /\ traces' = end_trace(traces, tlocal[t].trace_id,
                           [success |-> TRUE, execution_time |-> 2])
    /\ tpc' = [tpc EXCEPT ![t] = "check_metric"]
    /\ UNCHANGED <<manager, _supervisor_instance>>
    /\ UNCHANGED <<task_history, events, metrics, obs_loaded, uuid_count, pc,
                   frame, ghost, reply, appended, tlocal>>

\* observability.py line 132: if metric_name not in self.metrics
ThreadCheckMetric(t) ==
    /\ tpc[t] = "check_metric"
    /\ tpc' = [tpc EXCEPT ![t] =
                  IF ThreadMetrics[tlocal[t].metric] \notin DOMAIN metrics
                  THEN "create_metric" ELSE "append_metric"]
    /\ UNCHANGED <<manager, _supervisor_instance>>
    /\ UNCHANGED <<task_history, store, obs_loaded, uuid_count, pc, frame, ghost,
                   reply, appended, tlocal>>

\* observability.py line 133: self.metrics[metric_name] = []
ThreadCreateMetric(t) ==
    /\ tpc[t] = "create_metric"
    /\ metrics' = [n \in DOMAIN metrics \cup {ThreadMetrics[tlocal[t].metric]} |->
                      IF n = ThreadMetrics[tlocal[t].metric] THEN <<>>
                      ELSE metrics[n]]
    /\ tpc' = [tpc EXCEPT ![t] = "append_metric"]
    /\ UNCHANGED <<manager, _supervisor_instance>>
    /\ UNCHANGED <<task_history, traces, events, obs_loaded, uuid_count, pc,
                   frame, ghost, reply, appended, tlocal>>

\* observability.py lines 135-139: the sample is appended to the series (far
\* below its cap); lines 194-198: the second metric follows, then the return
ThreadAppendMetric(t) ==
    /\ tpc[t] = "append_metric"
    /\ metrics' = record_metric(metrics, ThreadMetrics[tlocal[t].metric],
                                ThreadMetricValues[tlocal[t].metric])
    /\ IF tlocal[t].metric < Len(ThreadMetrics)
       THEN /\ tlocal' = [tlocal EXCEPT ![t].metric = @ + 1]
            /\ tpc' = [tpc EXCEPT ![t] = "check_metric"]
       ELSE /\ tpc' = [tpc EXCEPT ![t] = "done"]
            /\ UNCHANGED tlocal
    /\ UNCHANGED <<manager, _supervisor_instance>>
    /\ UNCHANGED <<task_history, traces, events, obs_loaded, uuid_count, pc,
                   frame, ghost, reply, appended>>

NextThreads ==
    \/ LoadCall
    \/ StartTrace(TRUE)
    \/ RecordSelection
    \/ DispatchGeneral(LoadModelOutcome(calls))
    \/ BuildSuccess(2)
    \/ HandleException(2)
    \/ FinishSuccess
    \/ FinishFailure
    \/ \E t \in Threads :
          \/ ThreadEnter(t)
          \/ ThreadAppendRecord(t)
          \/ ThreadCheckHistory(t)
          \/ ThreadSliceHistory(t)
          \/ ThreadAssignHistory(t)
          \/ ThreadEndTrace(t)
          \/ ThreadCheckMetric(t)
          \/ ThreadCreateMetric(t)
          \/ ThreadAppendMetric(t)

SpecThreads == Init /\ [][NextThreads]_vars

(***************************************************************************)
(* Threads constructing ObservabilityManager and recording through the     *)
(* object they get.  The class can be reached only through its module,     *)
(* whose import runs line 340 under the interpreter's import lock: the     *)
(* first construction is the import's, and a thread constructs after it.   *)
(***************************************************************************)
\* constructions made by each thread
MaxConstructions == 3
Constructions(t) == IF "n" \in DOMAIN tlocal[t] THEN tlocal[t].n ELSE 0

\* a thread imports the module.  The first import of the process runs the
\* module body, line 340 included; creating the log directory may fail, and
\* then the import raises and the module, with its class, is discarded.
ImportObservability(t, ok) ==
    /\ tpc[t] = "idle"
    /\ IF obs_loaded
       THEN /\ tpc' = [tpc EXCEPT ![t] = "imported"]
            /\ UNCHANGED <<obs_loaded, manager, store>>
       ELSE IF ok
       THEN /\ obs_loaded' = TRUE
            /\ manager' = Constructed(manager)
            /\ traces' = EmptyStore[1]
            /\ events' = EmptyStore[2]
            /\ metrics' = EmptyStore[3]
            /\ tpc' = [tpc EXCEPT ![t] = "imported"]
       ELSE UNCHANGED <<obs_loaded, manager, store, tpc>>
    /\ UNCHANGED <<sequential, tlocal>>

\* ObservabilityManager() in a thread, first half: __new__
ThreadNew(t) ==
    /\ tpc[t] \in {"imported", "recorded"}
    /\ Constructions(t) < MaxConstructions
    /\ manager' = __new__(manager)
    /\ tlocal' = [tlocal EXCEPT ![t] = [instance |-> manager'._instance,
                                        n |-> Constructions(t) + 1]]
    /\ tpc' = [tpc EXCEPT ![t] = "init"]
    /\ UNCHANGED <<sequential, store, obs_loaded>>

\* ObservabilityManager() in a thread, second half: __init__ on the object
ThreadInit(t) ==
    /\ tpc[t] = "init"
    /\ LET r == __init__(manager, tlocal[t].instance, store)
       IN  /\ manager' = r.manager
           /\ traces' = r.store[1]
           /\ events' = r.store[2]
           /\ metrics' = r.store[3]
    /\ tpc' = [tpc EXCEPT ![t] = "constructed"]
    /\ UNCHANGED <<sequential, obs_loaded, tlocal>>

\* the thread records an event through the object it constructed
ThreadRecord(t) ==
    /\ tpc[t] = "constructed"
    /\ events' = record_event(events, "custom",
                              [thread |-> t, n |-> Constructions(t)])
    /\ tpc' = [tpc EXCEPT ![t] = "recorded"]
    /\ UNCHANGED <<sequential, traces, metrics, obs_loaded, tlocal, manager>>

NextSingleton ==
    \/ \E t \in Threads :
          \/ \E ok \in BOOLEAN : ImportObservability(t, ok)
          \/ ThreadNew(t)
          \/ ThreadInit(t)
          \/ ThreadRecord(t)

SpecSingleton == Init /\ [][NextSingleton]_vars

(***************************************************************************)
(* Threads obtaining the supervisor through get_supervisor_agent or        *)
(* create_supervisor_agent (lines 289-299).  The module takes no lock, so  *)
(* a thread can be pre-empted between the test of line 292, the            *)
(* construction and assignment of line 293 and the return of line 294.     *)
(***************************************************************************)
\* calls each thread makes
MaxGets == 2
Accessors == {"get_supervisor_agent", "create_supervisor_agent"}
Gets(t) == IF "gets" \in DOMAIN tlocal[t] THEN tlocal[t].gets ELSE 0
\* the SupervisorAgent object thread t constructs in its n-th call; each
\* object has a task_history of its own (line 56)
SupervisorId(t, n) == "supervisor " \o t \o "." \o ToString(n)

\* line 292: if _supervisor_instance is None
TestInstance(t, accessor) ==
    /\ tpc[t] \in {"idle", "got"}
    /\ Gets(t) < MaxGets
    /\ tlocal' = [tlocal EXCEPT ![t] =
           [gets |-> Gets(t) + 1, via |-> accessor, got |-> None]]
    /\ tpc' = [tpc EXCEPT ![t] = IF _supervisor_instance = None
                                 THEN "create" ELSE "return"]
    /\ UNCHANGED <<task_history, store, obs_loaded, uuid_count, pc, frame, ghost,
                   reply, appended, manager, _supervisor_instance>>

\* line 293: _supervisor_instance = SupervisorAgent()
CreateInstance(t) ==
    /\ tpc[t] = "create"
    /\ _supervisor_instance' = SupervisorId(t, Gets(t))
    /\ tpc' = [tpc EXCEPT ![t] = "return"]
    /\ UNCHANGED <<task_history, store, obs_loaded, uuid_count, pc, frame, ghost,
                   reply, appended, manager, tlocal>>

\* line 294: return _supervisor_instance
ReturnInstance(t) ==
    /\ tpc[t] = "return"
    /\ tlocal' = [tlocal EXCEPT ![t].got = _supervisor_instance]
    /\ tpc' = [tpc EXCEPT ![t] = "got"]
    /\ UNCHANGED <<task_history, store, obs_loaded, uuid_count, pc, frame, ghost,
                   reply, appended, manager, _supervisor_instance>>

NextSupervisors ==
    \E t \in Threads :
        \/ \E accessor \in Accessors : TestInstance(t, accessor)
        \/ CreateInstance(t)
        \/ ReturnInstance(t)

SpecSupervisors == Init /\ [][NextSupervisors]_vars

(***************************************************************************)
(* One general task whose model call is slow, while tasks running in other *)
(* threads start and end their own traces in the shared span buffer.       *)
(***************************************************************************)
\* spans the other tasks append while the task waits for its model
MaxOtherSpans == 1001

SlowCall ==
    /\ calls < 1
    /\ Enter("hello", "general")

\* another task appends its start span or, if it has one open, its end span
\* (observability.py lines 73-79 and 96-100)
OtherSpan ==
    /\ pc = "dispatch"
    /\ appended.total < MaxOtherSpans
    /\ IF appended.total % 2 = 0
       THEN /\ uuid_count' = uuid_count + 1
            /\ traces' = start_trace(traces, uuid4(uuid_count + 1), "other",
                                     [n |-> appended.total + 1])
       ELSE /\ traces' = end_trace(traces, uuid4(uuid_count),
                                   [n |-> appended.total + 1])
            /\ UNCHANGED uuid_count
    /\ appended' = [appended EXCEPT !.total = @ + 1]
    /\ UNCHANGED <<task_history, events, metrics, obs_loaded, pc, frame, ghost,
                   reply, tpc, tlocal, manager, _supervisor_instance>>

NextEviction ==
    \/ SlowCall
    \/ StartTrace(TRUE)
    \/ RecordSelection
    \/ OtherSpan
    \/ \E o \in ReadModelOutcomes : DispatchGeneral(o)
    \/ BuildSuccess(2)
    \/ FinishSuccess
    \/ HandleException(2)
    \/ FinishFailure

SpecEviction == Init /\ [][NextEviction]_vars

(***************************************************************************)
(* Properties                                                              *)
(***************************************************************************)
\* positions after the dispatch of lines 151-174
AfterDispatch == {"build", "except", "finish", "finish_failed", "returned"}

\* the history records carrying a task id
RecordsOf(tid) == {i \in 1..Len(task_history) : task_history[i].task_id = tid}

\* the text of the exception the executor or the direct model call raised
RaisedText == IF response.raised THEN response.text ELSE answer.text

\* C1: a call that returns has returned exactly one TaskResult and has
\* appended exactly one history record carrying its task id, on the success
\* and on the failure path; no task id ever has two records, and no record
\* of the task exists before its result is built.
OneResultOneRecord ==
    /\ Len(returned) <= 1
    /\ \A i, j \in 1..Len(task_history) :
           task_history[i].task_id = task_history[j].task_id => i = j
    /\ pc = "returned" =>
           /\ Len(returned) = 1
           /\ Cardinality(RecordsOf(task_id)) = 1
           /\ task_history[Len(task_history)].task_id = task_id
    /\ pc \in {"start", "try", "select", "dispatch", "build", "except"} =>
           RecordsOf(task_id) = {}

\* a second call has failed and returned, and both calls left their record
OneResultOneRecordWitness ==
    /\ pc = "returned"
    /\ calls = 2
    /\ ~returned[1].success
    /\ Len(task_history) = 2
    /\ task_history[1].success

\* every TaskResult returned or embedded in a history record
AllResults ==
    {returned[i] : i \in 1..Len(returned)}
    \cup {task_history[i].result : i \in 1..Len(task_history)}

\* C2: in every TaskResult returned by execute_task and in every result
\* embedded in a history record, success is false exactly when error is
\* not None.
ErrorIffFailure ==
    \A r \in AllResults : (r.success = FALSE) <=> (r.error # None)

\* a failed result whose exception had an empty text was returned and recorded
ErrorIffFailureWitness ==
    /\ pc = "returned"
    /\ returned[1].success = FALSE
    /\ returned[1].error = ""
    /\ task_history[Len(task_history)].result = returned[1]

\* C3: no exception escapes execute_task: whichever step raises, the call
\* returns a TaskResult.
NoExceptionEscapes == pc # "escaped"

\* C4: when the executor or the direct model call raised, the returned
\* result has success false, content equal to the failure prefix followed by
\* the exception text and error equal to the exception text, and the record
\* appended for the task has success false.
RaiseYieldsFailedResult ==
    (pc = "returned" /\ (response.raised \/ answer.raised)) =>
        /\ returned[1].success = FALSE
        /\ returned[1].content = FailurePrefix \o RaisedText
        /\ returned[1].error = RaisedText
        /\ task_history[Len(task_history)].task_id = task_id
        /\ task_history[Len(task_history)].success = FALSE
        /\ task_history[Len(task_history)].result.success = FALSE

\* the music executor raised "boom" and the call has returned
RaiseYieldsFailedResultWitness ==
    /\ pc = "returned"
    /\ invoked["music"] = 1
    /\ response.raised
    /\ response.text = "boom"

\* C5: with an explicit agent type outside map, music, general, neither the
\* classifier, the direct model call nor an executor is ever invoked, the
\* returned result is failed with the invalid-type message naming that type
\* as its error, and a history record of the task is appended.
UnknownTypeFails ==
    (explicit # None /\ explicit \notin AgentType) =>
        /\ invoked = NoInvocation
        /\ pc \in AfterDispatch => exc = UnknownTypePrefix \o explicit
        /\ pc = "returned" =>
               /\ returned[1].success = FALSE
               /\ returned[1].error = UnknownTypePrefix \o explicit
               /\ task_history[Len(task_history)].task_id = task_id
               /\ task_history[Len(task_history)].success = FALSE

\* a call with the explicit type "video" has returned
UnknownTypeFailsWitness ==
    /\ pc = "returned"
    /\ explicit = "video"
    /\ returned[1].error = "unknown agent type: video"

\* the characters of the three labels
LabelChars ==
    [map |-> <<"m","a","p">>, music |-> <<"m","u","s","i","c">>,
     general |-> <<"g","e","n","e","r","a","l">>]

\* c is the letter l in either case
IsLetter(c, l) == c = l \/ \E n \in 1..26 : LowerCase[n] = l /\ UpperCase[n] = c

\* the reply s is the label, in any case, surrounded by whitespace only
Spells(s, label) ==
    \E i \in 1..Len(s) + 1 :
        /\ \A k \in 1..Len(s) :
               (k < i \/ k >= i + Len(LabelChars[label])) => s[k] \in Whitespace
        /\ i + Len(LabelChars[label]) - 1 <= Len(s)
        /\ \A k \in 1..Len(LabelChars[label]) :
               IsLetter(s[i + k - 1], LabelChars[label][k])

\* C6: the label analyze_intent returns is one of map, music, general: it is
\* the label the reply spells once trimmed and lower-cased, and general when
\* the reply spells no label or the model call raised.
IntentIsALabel ==
    invoked["classifier"] > 0 =>
        /\ agent_type \in AgentType
        /\ pc # "try"
        /\ classified.raised => agent_type = "general"
        /\ \A label \in AgentType :
               (~classified.raised /\ Spells(classified.content, label))
                   => agent_type = label
        /\ (~classified.raised /\ \A label \in AgentType : ~Spells(classified.content, label))
               => agent_type = "general"

\* the model replied "maps" and the intent analysis has returned
IntentIsALabelWitness ==
    /\ pc = "select"
    /\ ~classified.raised
    /\ classified.content = <<"m","a","p","s">>

\* C7: the classifier is invoked exactly when no explicit agent type was
\* supplied: never for an explicit type, once otherwise.
ClassifiedIffNoExplicitType ==
    /\ explicit # None => invoked["classifier"] = 0
    /\ (explicit = None /\ pc \in {"select", "dispatch"} \cup AfterDispatch)
           => invoked["classifier"] = 1

\* a call with the explicit type "general" was answered by the model
ClassifiedIffNoExplicitTypeWitness ==
    /\ pc = "returned"
    /\ explicit = "general"
    /\ returned[1].success
    /\ invoked["model"] = 1

\* C8: dispatch follows the resolved label: general is answered by one
\* direct model call and no executor; map or music invokes that executor
\* once, not the other one and not the direct model call.
DispatchFollowsLabel ==
    /\ pc \notin AfterDispatch =>
           invoked["model"] = 0 /\ invoked["map"] = 0 /\ invoked["music"] = 0
    /\ (pc \in AfterDispatch /\ agent_type = "general") =>
           /\ invoked["model"] = 1 /\ invoked["map"] = 0 /\ invoked["music"] = 0
           /\ (pc = "returned" /\ returned[1].success) => returned[1].content = answer.text
    /\ (pc \in AfterDispatch /\ agent_type = "map") =>
           invoked["model"] = 0 /\ invoked["map"] = 1 /\ invoked["music"] = 0
    /\ (pc \in AfterDispatch /\ agent_type = "music") =>
           invoked["model"] = 0 /\ invoked["map"] = 0 /\ invoked["music"] = 1

\* the classifier replied general and the model answered directly
DispatchFollowsLabelWitness ==
    /\ pc = "returned"
    /\ explicit = None
    /\ classified.content = <<"G","E","N","E","R","A","L">>
    /\ returned[1].success
    /\ returned[1].content = "hi there"

\* the executor was invoked and returned a response
ExecutorReturned ==
    /\ pc = "returned"
    /\ invoked["map"] + invoked["music"] = 1
    /\ ~response.raised

\* C9 as stated: after a non-empty executor response the result is
\* successful, carries the label, and its content is the content of the last
\* message.
ContentIsLastMessageContent ==
    (ExecutorReturned /\ response.messages # <<>>) =>
        /\ returned[1].success
        /\ returned[1].agent_type = agent_type
        /\ returned[1].content = response.messages[Len(response.messages)].content

\* C9 amended: after a non-empty executor response the result is successful,
\* carries the label, and its content is the content attribute of the last
\* message when the message has one, and the string form of the last message
\* otherwise.
ContentIsLastMessageContentOrStr ==
    (ExecutorReturned /\ response.messages # <<>>) =>
        /\ returned[1].success
        /\ returned[1].error = None
        /\ returned[1].agent_type = agent_type
        /\ agent_type \in sub_agents
        /\ invoked[agent_type] = 1
        /\ LET last == response.messages[Len(response.messages)]
           IN  /\ last.kind = "obj" => returned[1].content = last.content
               /\ last.kind = "dict" =>
                      returned[1].content = "{'content': '" \o last.content \o "'}"

\* the map executor returned two messages, the last one being the answer
ContentIsLastMessageContentOrStrWitness ==
    /\ pc = "returned"
    /\ explicit = "map"
    /\ ~response.raised
    /\ Len(response.messages) = 2
    /\ returned[1].content = "found POI X"

\* C10: after an empty executor response the call does not fail: the result
\* is successful, its error is None and its content is the placeholder.
EmptyResponseYieldsPlaceholder ==
    (ExecutorReturned /\ response.messages = <<>>) =>
        /\ returned[1].success
        /\ returned[1].error = None
        /\ returned[1].content = Placeholder
        /\ task_history[Len(task_history)].success

\* the music executor returned an empty message list
EmptyResponseYieldsPlaceholderWitness ==
    /\ pc = "returned"
    /\ invoked["music"] = 1
    /\ ~response.raised
    /\ response.messages = <<>>
    /\ returned[1].content = "(Agent returned no content)"

\* the smaller of two numbers
Min(a, b) == IF a < b THEN a ELSE b

\* C15: get_statistics on an empty history returns total_tasks 0,
\* success_rate 0, avg_execution_time 0 and an empty agent_usage mapping.
EmptyHistoryStatistics ==
    (reply.op = "get_statistics" /\ task_history = <<>>) =>
        /\ reply.value.total_tasks = 0
        /\ reply.value.success_rate.num = 0
        /\ reply.value.success_rate.den # 0
        /\ reply.value.avg_execution_time.num = 0
        /\ reply.value.avg_execution_time.den # 0
        /\ DOMAIN reply.value.agent_usage = {}

\* the statistics were read before any task was recorded
EmptyHistoryStatisticsWitness ==
    /\ reply.op = "get_statistics"
    /\ task_history = <<>>
    /\ reply.value.total_tasks = 0

\* C16: on a non-empty history, total_tasks is the number of history records
\* and success_rate is the number of records with success true divided by
\* total_tasks.
SuccessRateIsSuccessfulOverTotal ==
    (reply.op = "get_statistics" /\ task_history # <<>>) =>
        /\ reply.value.total_tasks = Len(task_history)
        /\ reply.value.success_rate.num =
               Cardinality({i \in 1..Len(task_history) : task_history[i].success})
        /\ reply.value.success_rate.den = reply.value.total_tasks

\* the statistics were read after one successful and two failed tasks
SuccessRateIsSuccessfulOverTotalWitness ==
    /\ reply.op = "get_statistics"
    /\ Len(task_history) = 3
    /\ ~task_history[1].success
    /\ task_history[2].success
    /\ ~task_history[3].success
    /\ reply.value.success_rate = [num |-> 1, den |-> 3]

\* C17: for every limit >= 0, get_task_history(limit) returns exactly the
\* min(limit, len(history)) most recent records in storage order; limit 0
\* returns no records.
HistoryReadIsMostRecentLimit ==
    (reply.op = "get_task_history" /\ reply.limit >= 0) =>
        /\ Len(reply.value) = Min(reply.limit, Len(task_history))
        /\ \A i \in 1..Len(reply.value) :
               reply.value[i] = task_history[Len(task_history) - Len(reply.value) + i]

\* the positions of the spans carrying a trace id
SpansOf(trid) == {i \in 1..Len(traces) : traces[i].trace_id = trid}

\* C18: a call that returns, successful or failed, has appended exactly one
\* start span and exactly one end span, in that order, both carrying the
\* trace id stored in the metadata of the returned result; until the call
\* finishes only the start span exists.
OneStartSpanOneEndSpan ==
    /\ pc \in {"try", "select", "dispatch", "build", "except", "finish", "finish_failed"} =>
           \E i \in 1..Len(traces) :
               /\ SpansOf(trace_id) = {i}
               /\ traces[i].span_name = "execute_task." \o task_id \o ".start"
    /\ pc = "returned" =>
           \E i, j \in 1..Len(traces) :
               /\ SpansOf(returned[1].metadata.trace_id) = {i, j}
               /\ i < j
               /\ traces[i].span_name = "execute_task." \o task_id \o ".start"
               /\ traces[j].span_name = "end"
               /\ traces[j].metadata.success = returned[1].success

\* a second call has failed and returned; the buffer holds two span pairs
OneStartSpanOneEndSpanWitness ==
    /\ pc = "returned"
    /\ calls = 2
    /\ ~returned[1].success
    /\ Len(traces) = 4
    /\ traces[4].trace_id = returned[1].metadata.trace_id

\* C19: the metadata of every returned TaskResult carries the task id, the
\* execution time, the user input and the trace id of the call, and its task
\* id is the task id of the history record appended for the call.
MetadataCarriesTaskAndTrace ==
    pc = "returned" =>
        LET md == returned[1].metadata
            record == task_history[Len(task_history)]
        IN  /\ DOMAIN md = {"task_id", "execution_time", "user_input", "trace_id"}
            /\ md.task_id = task_id
            /\ md.task_id = record.task_id
            /\ md.user_input = user_input
            /\ md.user_input = record.user_input
            /\ md.execution_time = record.execution_time
            /\ md.trace_id # None
            /\ SpansOf(md.trace_id) # {}
            /\ record.result.metadata = md

\* a failed task has returned its result
MetadataCarriesTaskAndTraceWitness ==
    /\ pc = "returned"
    /\ ~returned[1].success
    /\ returned[1].metadata.user_input = "play jay"
    /\ returned[1].metadata.task_id = "u1"
    /\ returned[1].metadata.trace_id = "u2"

\* C20: the agent type of the returned result is the resolved label (the
\* explicit type when one was supplied, otherwise the classifier's output)
\* on success and on failure; it is "unknown" only when the task failed
\* before any label had been resolved.
ResultCarriesResolvedLabel ==
    pc = "returned" =>
        /\ explicit # None => returned[1].agent_type = explicit
        /\ explicit = None => returned[1].agent_type = analyze_intent(classified)
        /\ returned[1].agent_type = "unknown" =>
               /\ ~returned[1].success
               /\ explicit = None
               /\ invoked["classifier"] = 0

\* the number of tasks that have recorded their result
Recorded ==
    IF pc \in {"finish", "finish_failed", "returned"} THEN calls
    ELSE IF calls = 0 THEN 0 ELSE calls - 1

\* C11: after n tasks the history holds min(n, 100) records, the most recent
\* ones in insertion order (the n-th task drew the (2n-1)-th identifier as
\* its task id); after the 101st task the record of the first is gone.
HistoryIsMostRecentHundred ==
    /\ Len(task_history) = Min(Recorded, 100)
    /\ \A i \in 1..Len(task_history) :
           task_history[i].task_id =
               uuid4(2 * (Recorded - Len(task_history) + i) - 1)

\* the 101st task has returned: 100 records, from the 2nd task to the 101st
HistoryIsMostRecentHundredWitness ==
    /\ pc = "returned"
    /\ calls = 101
    /\ Len(task_history) = 100
    /\ task_history[1].task_id = "u3"
    /\ task_history[100].task_id = "u201"
    /\ task_history[100].task_id = task_id

\* C13: each buffer of the store (spans, events, the samples of each metric
\* series) holds at most 1000 entries, and they are the most recently
\* appended ones, in the order they were appended.
MostRecentOf(buffer, log) ==
    /\ Len(buffer) = Min(Len(log), 1000)
    /\ \A i \in 1..Len(buffer) : buffer[i] = log[Len(log) - Len(buffer) + i]

BuffersHoldMostRecentThousand ==
    /\ MostRecentOf(traces, appended.traces)
    /\ MostRecentOf(events, appended.events)
    /\ DOMAIN metrics = DOMAIN appended.metrics
    /\ \A n \in DOMAIN metrics : MostRecentOf(metrics[n], appended.metrics[n])

BuffersHoldMostRecentThousandWitness ==
    /\ Len(appended.traces) = 1002
    /\ appended.traces[1].span_name = "step.start"
    /\ appended.traces[2].span_name = "step"
    /\ appended.traces[1002].span_name = "end"
    /\ Len(traces) = 1000
    /\ traces[1].metadata.n = 3
    /\ traces[1000].span_name = "end"

\* the threads whose _record_task has finished
PastRecordTask(t) ==
    tpc[t] \in {"end_trace", "check_metric", "create_metric", "append_metric", "done"}

NoRecordLost ==
    \A t \in Threads :
        PastRecordTask(t) =>
            \E i \in 1..Len(task_history) : task_history[i] = tlocal[t].task_record

\* C12: with execute_task calls finishing concurrently, the append and the
\* truncation of the history act as one atomic step: no record of a finished
\* task is lost and, outside _record_task, the history never holds more than
\* 100 records.
HistoryUpdateIsAtomic ==
    /\ NoRecordLost
    /\ (\A t \in Threads : tpc[t] = "idle" \/ PastRecordTask(t)) =>
           Len(task_history) <= 100

\* the threads that have recorded the k-th metric of their task
Sampled(k) ==
    {t \in Threads : \/ tpc[t] = "done"
                     \/ /\ tpc[t] \in {"check_metric", "create_metric", "append_metric"}
                        /\ tlocal[t].metric > k}

\* C14: appends to the store made by concurrent tasks are all kept: every
\* sample a thread recorded is in its metric series.
NoSampleLost ==
    \A k \in 1..Len(ThreadMetrics) :
        Sampled(k) # {} =>
            /\ ThreadMetrics[k] \in DOMAIN metrics
            /\ Len(metrics[ThreadMetrics[k]]) = Cardinality(Sampled(k))

SamplesOf(m, n) == IF n \in DOMAIN m THEN m[n] ELSE <<>>

\* C21: a successful execute_task records exactly two metric samples, the
\* execution time and a success sample of value 1, both in the series of the
\* result's agent type, and no failure sample; a failed one records exactly
\* one failure sample of value 1 for the result's agent type ("unknown"
\* included) and no success sample; no other step touches the metrics.
SamplesFollowOutcome ==
    [][LET r == returned'[1]
           series(kind) == "agent." \o r.agent_type \o kind
           grown == IF r.success
                    THEN {series(".execution_time"), series(".success")}
                    ELSE {series(".failure")}
       IN  IF pc # "returned" /\ pc' = "returned"
           THEN /\ DOMAIN metrics' = DOMAIN metrics \cup grown
                /\ \A n \in DOMAIN metrics' \ grown :
                       metrics'[n] = metrics[n]
                /\ r.success =>
                       /\ metrics'[series(".execution_time")] =
                              Append(SamplesOf(metrics, series(".execution_time")),
                                     r.metadata.execution_time)
                       /\ metrics'[series(".success")] =
                              Append(SamplesOf(metrics, series(".success")), 1)
                /\ ~r.success =>
                       metrics'[series(".failure")] =
                           Append(SamplesOf(metrics, series(".failure")), 1)
           ELSE metrics' = metrics]_vars

SamplesFollowOutcomeWitness ==
    /\ pc = "returned"
    /\ calls = 2
    /\ ~returned[1].success
    /\ returned[1].agent_type = "unknown"
    /\ DOMAIN metrics = {"agent.map.execution_time", "agent.map.success",
                         "agent.unknown.failure"}
    /\ metrics["agent.map.success"] = <<1>>
    /\ metrics["agent.unknown.failure"] = <<1>>

\* the classification of the current call failed: its model call raised, or
\* it replied something that is not one of the three labels
ClassificationFailed ==
    /\ invoked["classifier"] = 1
    /\ \/ classified.raised
       \/ Join(lower(strip(classified.content))) \notin {"map", "music", "general"}

\* C22: when no explicit type is given and the classification fails, the
\* task goes down the general path: the model is asked directly, no executor
\* is invoked, the result carries the label general, and it is a success
\* exactly when that direct model call returned; a failure reports the
\* model's exception.
ClassificationFailureIsSilent ==
    (pc = "returned" /\ explicit = None /\ ClassificationFailed) =>
        /\ returned[1].agent_type = "general"
        /\ invoked["model"] = 1
        /\ invoked["map"] = 0
        /\ invoked["music"] = 0
        /\ returned[1].success <=> ~answer.raised
        /\ ~returned[1].success => returned[1].error = answer.text

ClassificationFailureIsSilentWitness ==
    /\ pc = "returned"
    /\ explicit = None
    /\ classified.raised
    /\ calls = 2
    /\ returned[1].success
    /\ returned[1].content = "hi there"
    /\ task_history[1].agent_type = "general"
    /\ ~task_history[1].success
    /\ task_history[1].result.error = "boom"

\* C23: within one execute_task call the classifier is invoked at most once,
\* the direct-answer model call at most once and an executor at most once,
\* whether or not any of them raises.
NoRetry ==
    /\ invoked["classifier"] <= 1
    /\ invoked["model"] <= 1
    /\ invoked["map"] + invoked["music"] <= 1
    /\ invoked["model"] + invoked["map"] + invoked["music"] <= 1

NoRetryWitness ==
    /\ pc = "returned"
    /\ classified.raised
    /\ answer.raised
    /\ invoked["classifier"] = 1
    /\ invoked["model"] = 1
    /\ ~returned[1].success
    /\ calls = 2
    /\ task_history[1].agent_type = "map"
    /\ task_history[1].result.error = "boom"

\* C24: every execute_task call that has started eventually returns a
\* result, completed (success) or failed, and returns exactly one.
EveryCallCompletesOrFails ==
    /\ \A n \in 1..MaxLiveCalls :
           (calls = n /\ pc = "start") ~> (calls = n /\ pc = "returned")
    /\ [](pc = "returned" => Len(returned) = 1)

\* thread t has recorded the event of its k-th construction
HasRecorded(t, k) ==
    \/ Constructions(t) > k
    \/ Constructions(t) = k /\ tpc[t] = "recorded"

\* C25: every construction of ObservabilityManager yields the one object
\* the class ever created, and no construction resets what was recorded:
\* each event a thread recorded is still in the buffer.
SingleSharedStore ==
    /\ manager.made <= 1
    /\ \A t \in Threads :
           Constructions(t) > 0 =>
               /\ tlocal[t].instance = manager._instance
               /\ tlocal[t].instance = ObjectId(1)
    /\ \A t \in Threads :
         \A k \in 1..Constructions(t) :
           HasRecorded(t, k) =>
               \E i \in 1..Len(events) : events[i].data = [thread |-> t, n |-> k]

SingleSharedStoreWitness ==
    /\ \A t \in Threads : Constructions(t) = 2 /\ tpc[t] = "recorded"
    /\ Len(events) = 4
    /\ events[1].data.thread = "T2"
    /\ events[2].data.thread = "T1"

\* C26: eviction from the span buffer is global.  When other tasks append
\* 999 spans or more between a task's start span and its end span, the full
\* buffer ends with the task's end span and no longer holds its start span;
\* with fewer, both spans are there.
EndSpanOutlivesStartSpan ==
    (pc = "returned" /\ calls = 1) =>
        IF appended.total >= 999
            THEN /\ Len(traces) = 1000
                 /\ traces[1000].trace_id = trace_id
                 /\ traces[1000].span_name = "end"
                 /\ \A i \in 1..999 : traces[i].trace_id # trace_id
                 /\ traces[1].metadata = [n |-> appended.total - 998]
            ELSE /\ Len(traces) = appended.total + 2
                 /\ traces[1].trace_id = trace_id
                 /\ traces[1].span_name = "execute_task." \o task_id \o ".start"
                 /\ traces[Len(traces)].trace_id = trace_id
                 /\ traces[Len(traces)].span_name = "end"

EndSpanOutlivesStartSpanWitness ==
    /\ pc = "returned"
    /\ appended.total = 1001
    /\ Len(traces) = 1000
    /\ traces[1000] = [trace_id |-> trace_id, span_name |-> "end",
                       metadata |-> [success |-> TRUE, execution_time |-> 2]]
    /\ traces[1].span_name = "other.start"
    /\ traces[1].metadata.n = 3
    /\ traces[1].trace_id # trace_id

\* the events of the current call, in the order they were recorded
EventsOfCall == SelectSeq(events, LAMBDA e : e.data.task_id = task_id)
EventTypes(es) == [i \in 1..Len(es) |-> es[i].event_type]
IsPrefix(s, t) == Len(s) <= Len(t) /\ SubSeq(t, 1, Len(s)) = s

\* C27: the events of one call come in a fixed order: the analysis event
\* and the classifier's invocation exactly when no explicit type was given,
\* then one selection event carrying the resolved label, recorded before
\* anything is dispatched, then an invocation event exactly when the label
\* is map or music; the selection event carries the label dispatched on.
EventsInFixedOrder ==
    pc \in {"try", "select", "dispatch", "build", "except", "finish",
            "finish_failed", "returned"} =>
        LET es == EventsOfCall
            full == (IF explicit = None THEN <<"intent_analysis">> ELSE <<>>)
                    \o <<"agent_selection">>
                    \o (IF agent_type \in {"map", "music"}
                        THEN <<"agent_invocation">> ELSE <<>>)
            dispatched == invoked["model"] + invoked["map"] + invoked["music"] > 0
        IN  /\ IsPrefix(EventTypes(es), full)
            /\ \A i \in 1..Len(es) :
                   es[i].event_type \in {"agent_selection", "agent_invocation"} =>
                       es[i].data.agent_type = agent_type
            /\ \A i \in 1..Len(es) :
                   (es[i].event_type = "agent_selection" /\ explicit = None) =>
                       invoked["classifier"] = 1
            /\ dispatched => \E i \in 1..Len(es) : es[i].event_type = "agent_selection"
            /\ invoked["map"] = 1 => agent_type = "map"
            /\ invoked["music"] = 1 => agent_type = "music"
            /\ invoked["model"] = 1 => agent_type = "general"
            /\ pc \in {"build", "except", "finish", "finish_failed", "returned"} =>
                   EventTypes(es) = full

EventsInFixedOrderWitness ==
    /\ pc = "returned"
    /\ explicit = None
    /\ calls = 2
    /\ EventTypes(EventsOfCall) = <<"intent_analysis", "agent_selection",
                                    "agent_invocation">>
    /\ EventsOfCall[2].data.agent_type = "music"
    /\ Len(events) = 4
    /\ events[1].data.agent_type = "video"

\* C28: every history record agrees with the result embedded in it: same
\* agent type and same success flag, whatever type the caller passed and on
\* both paths.
RecordAgreesWithResult ==
    \A i \in 1..Len(task_history) :
        /\ task_history[i].agent_type = task_history[i].result.agent_type
        /\ task_history[i].success = task_history[i].result.success

RECURSIVE SumOf(_)
SumOf(f) ==
    IF DOMAIN f = {} THEN 0
    ELSE LET a == CHOOSE x \in DOMAIN f : TRUE
         IN  f[a] + SumOf([x \in DOMAIN f \ {a} |-> f[x]])

\* C29: after n execute_task calls have returned, get_statistics reports
\* total_tasks = min(n, 100) and the counts of agent_usage add up to
\* total_tasks; get_statistics and get_task_history leave the history as it
\* is.
StatisticsCountTheHistory ==
    /\ [](reply.op = "get_statistics" =>
             /\ reply.value.total_tasks = Min(calls, 100)
             /\ SumOf(reply.value.agent_usage) = reply.value.total_tasks)
    /\ [][reply' # reply /\ reply'.op # "none" => task_history' = task_history]_vars

StatisticsCountTheHistoryWitness ==
    /\ reply.op = "get_statistics"
    /\ calls = 101
    /\ reply.value.total_tasks = 100
    /\ DOMAIN reply.value.agent_usage = {"general"}
    /\ task_history[1].task_id = "u3"

\* C30: every call of get_supervisor_agent and create_supervisor_agent,
\* from any thread, returns the same SupervisorAgent object: the one the
\* module global holds.
OneSupervisor ==
    \A t1 \in Threads, t2 \in Threads :
        (tpc[t1] = "got" /\ tpc[t2] = "got") =>
            /\ tlocal[t1].got = tlocal[t2].got
            /\ tlocal[t1].got = _supervisor_instance
====
